---- MODULE Spec2Model ----
(***************************************************************************)
(* Model of the mdproc workflows that turn embedded blocks of a markdown   *)
(* document into uploaded images:                                          *)
(*   - mdmermaid2img.process_mermaid_markdown_3steps (mermaid fences)      *)
(*   - mdtable2img.main (pipe tables)                                      *)
(* A document is a sequence of tokens.  Every token is a string; the fence *)
(* marker, the fence tag and a generated image link are single tokens, all *)
(* other tokens are single characters.  The regular expressions and the    *)
(* string operations of the source are computed token by token.            *)
(***************************************************************************)
EXTENDS Integers, Sequences, FiniteSets, TLC

\* ------------------------------------------------------------------ bounds
\* Longest document, counted in chunks of the chunk tables below.
MaxChunks ==
  3

\* Number of consecutive runs of a workflow, each on the output of the last.
MaxRuns ==
  2

\* Most tables in a document given to extract_raw_tables.
MaxTables ==
  3

\* Most lines of a document given to mdforzhihu.
MaxLines ==
  4

\* ------------------------------------------------------------------ tokens
\* The fence marker: three backquotes in the source (a backquote cannot be
\* written in a string of this language, so an apostrophe stands for it).
FENCE ==
  "'''"
TAG ==
  "mermaid"
NL ==
  "\n"
SP ==
  " "
PIPE ==
  "|"

\* Characters matched by \s and removed by str.strip().
IsSpace(t) ==
  t \in {SP, NL}

\* ------------------------------------------------------- input documents
\* Pieces the mermaid documents are assembled from.
MermaidChunks ==
  << <<FENCE, TAG, NL, "a", NL, FENCE>>,          \* a diagram
     <<FENCE, TAG, NL, SP, "a", NL, FENCE>>,      \* same diagram, other span
     <<FENCE, TAG, NL, "b", NL, FENCE>>,          \* another diagram
     <<FENCE, TAG, NL>>,                          \* an opening fence alone
     <<TAG, NL, "a", NL, FENCE>>,                 \* text that ends like a block
     <<NL>>,
     <<"a">> >>

\* Pieces the table documents are assembled from.
TableChunks ==
  << <<PIPE, "a", PIPE, NL>>,                     \* a table row
     <<PIPE, "b", PIPE, NL>>,                     \* another table row
     <<PIPE, "a", PIPE, NL, PIPE, "b", PIPE, NL>>, \* a two-row table
     <<PIPE, "b", PIPE, NL, PIPE, "a", PIPE, NL>>, \* another two-row table
     <<"a", PIPE, "a", PIPE, NL>>,                \* a line that is no table row
     <<NL>>,
     <<"a", NL>> >>

RECURSIVE Flatten(_, _)
Flatten(chunks, ids) ==
  IF ids = <<>> THEN <<>>
  ELSE chunks[Head(ids)] \o Flatten(chunks, Tail(ids))

Docs(chunks) ==
  { Flatten(chunks, ids) :
      ids \in UNION { [1..k -> 1..Len(chunks)] : k \in 0..MaxChunks } }

\* ------------------------------------------------------ string operations
\* Index of the first occurrence of old in s at or after p, 0 when none.
RECURSIVE Find(_, _, _)
Find(s, old, p) ==
  IF p + Len(old) - 1 > Len(s) THEN 0
  ELSE IF SubSeq(s, p, p + Len(old) - 1) = old THEN p
  ELSE Find(s, old, p + 1)

\* str.replace(old, new, count); count = -1 replaces every occurrence.
RECURSIVE Replace(_, _, _, _)
Replace(s, old, new, count) ==
  LET at == Find(s, old, 1) IN
  IF count = 0 \/ at = 0 THEN s
  ELSE SubSeq(s, 1, at - 1) \o new
       \o Replace(SubSeq(s, at + Len(old), Len(s)), old, new, count - 1)

\* str.strip()
Strip(s) ==
  LET keep == { k \in 1..Len(s) : ~IsSpace(s[k]) } IN
  IF keep = {} THEN <<>>
  ELSE SubSeq(s, CHOOSE k \in keep : \A m \in keep : k <= m,
                 CHOOSE k \in keep : \A m \in keep : m <= k)

\* --------------------------------------------------- extract_mermaid_code
\* The pattern FENCE TAG NL (.*?) NL FENCE with DOTALL, tried at index i:
\* the index of the closing fence of the shortest match, 0 when none.
MermaidMatchEnd(s, i) ==
  IF i + 2 <= Len(s) /\ SubSeq(s, i, i + 2) = <<FENCE, TAG, NL>>
  THEN LET closers == { j \in (i + 3)..(Len(s) - 1) :
                          s[j] = NL /\ s[j + 1] = FENCE } IN
       IF closers = {} THEN 0
       ELSE (CHOOSE j \in closers : \A m \in closers : j <= m) + 1
  ELSE 0

\* re.finditer: the leftmost non-overlapping matches at or after p,
\* each as [first, last] token index.
RECURSIVE MermaidFinditer(_, _)
MermaidFinditer(s, p) ==
  LET starts == { i \in p..Len(s) : MermaidMatchEnd(s, i) # 0 } IN
  IF starts = {} THEN <<>>
  ELSE LET i == CHOOSE k \in starts : \A m \in starts : k <= m
           e == MermaidMatchEnd(s, i)
       IN  <<[first |-> i, last |-> e]>> \o MermaidFinditer(s, e + 1)

\* Variant of extract_mermaid_code that rebuilds the block from the stripped
\* code instead of taking match.group(0).
extract_mermaid_code_rebuilt(markdown_content) ==
  LET matches == MermaidFinditer(markdown_content, 1) IN
  [ k \in 1..Len(matches) |->
      LET code == Strip(SubSeq(markdown_content, matches[k].first + 3,
                               matches[k].last - 2)) IN
      [ mermaid_code   |-> code,
        original_block |-> <<FENCE, TAG, NL>> \o code \o <<NL, FENCE>> ] ]

extract_mermaid_code(markdown_content) ==
  LET matches == MermaidFinditer(markdown_content, 1) IN
  [ k \in 1..Len(matches) |->
      [ mermaid_code   |-> Strip(SubSeq(markdown_content,
                                        matches[k].first + 3,
                                        matches[k].last - 2)),
        original_block |-> SubSeq(markdown_content,
                                  matches[k].first, matches[k].last) ] ]

\* ----------------------------------------------------------- extract_tables
\* One iteration of the group ^\s*\|.*\|\s*\n (MULTILINE) tried at index p:
\* the index after the iteration, 0 when it does not match.
TableRowEnd(s, p) ==
  IF p > Len(s) \/ ~(p = 1 \/ s[p - 1] = NL) THEN 0
  ELSE
    LET nonSpace == { k \in p..Len(s) : ~IsSpace(s[k]) }
        q == IF nonSpace = {} THEN 0
             ELSE CHOOSE k \in nonSpace : \A m \in nonSpace : k <= m
    IN
    IF q = 0 \/ s[q] # PIPE THEN 0
    ELSE
      LET newlines == { k \in q..Len(s) : s[k] = NL }
          lineEnd  == IF newlines = {} THEN Len(s) + 1
                      ELSE CHOOSE k \in newlines : \A m \in newlines : k <= m
          \* end of the greedy \s*\n after a closing pipe at r, 0 when none
          TailEnd(r) ==
            LET after == { k \in (r + 1)..Len(s) : ~IsSpace(s[k]) }
                stop  == IF after = {} THEN Len(s) + 1
                         ELSE CHOOSE k \in after : \A m \in after : k <= m
                nls   == { k \in (r + 1)..(stop - 1) : s[k] = NL }
            IN IF nls = {} THEN 0
               ELSE (CHOOSE k \in nls : \A m \in nls : m <= k) + 1
          pipes == { r \in (q + 1)..(lineEnd - 1) :
                       s[r] = PIPE /\ TailEnd(r) # 0 }
      IN
      IF pipes = {} THEN 0
      ELSE TailEnd(CHOOSE r \in pipes : \A m \in pipes : m <= r)

\* The greedy repetition (...)+ continued from the end e of an iteration.
RECURSIVE TableRowsEnd(_, _)
TableRowsEnd(s, e) ==
  IF TableRowEnd(s, e) = 0 THEN e
  ELSE TableRowsEnd(s, TableRowEnd(s, e))

\* table_pattern.finditer at or after p, each match as [first, last].
RECURSIVE TableFinditer(_, _)
TableFinditer(s, p) ==
  LET starts == { k \in p..Len(s) : TableRowEnd(s, k) # 0 } IN
  IF starts = {} THEN <<>>
  ELSE LET f == CHOOSE k \in starts : \A m \in starts : k <= m
           e == TableRowsEnd(s, TableRowEnd(s, f))
       IN  <<[first |-> f, last |-> e - 1]>> \o TableFinditer(s, e)

extract_tables(md_text) ==
  LET matches == TableFinditer(md_text, 1) IN
  [ k \in 1..Len(matches) |->
      SubSeq(md_text, matches[k].first, matches[k].last) ]

\* ------------------------------------------------------------ collaborators
\* Values str.__hash__ may give a diagram source in one process: the hash is
\* salted per process, so each distinct source gets an arbitrary value.
StrHashValues ==
  {-2147483643, 6}

\* hash(mermaid_code) & 0x7FFFFFFF
HashMask ==
  2147483647

CodeHash(h) ==
  IF h >= 0 THEN h ELSE (h + HashMask) + 1

MermaidImgDir ==
  "/tmp/mermaid2img"

TableImgDir ==
  "/tmp/mdtable2img"

COS_URL_PREFIX ==
  "https://bucket.cos.region.myqcloud.com/"

\* os.path.join(output_dir, "mermaid_<code_hash>.png")
MermaidImgPath(h) ==
  [dir |-> MermaidImgDir, name |-> "mermaid_" \o ToString(CodeHash(h)) \o ".png"]

\* os.path.join(img_dir, "table_<i + 1>.png"), k = i + 1
TableImgPath(k) ==
  [dir |-> TableImgDir, name |-> "table_" \o ToString(k) \o ".png"]

\* cos_uploader.upload: the URL of the uploaded object
upload(png_path) ==
  COS_URL_PREFIX \o ("imgs/" \o png_path.name)

MermaidLink(k, image_url) ==
  <<"![mermaid " \o ToString(k) \o "](" \o image_url \o ")">>

TableLink(k, cos_url) ==
  <<"![Table " \o ToString(k) \o "](" \o cos_url \o ")", NL>>

\* -------------------------------------------------------------------- state
VARIABLES
  workflow,          \* "mermaid" or "table": which entry point runs
  input_file,        \* text of the input file
  output_file,       \* text of the output file, <<>> until written
  reads,             \* number of reads of the input file
  writes,            \* number of writes of the output file
  pc,                \* position of the run
  content,           \* markdown_content / content: the text as read
                     \*   (table workflow: with the replacements made so far)
  updated_content,   \* replace_mermaid_with_images: the text being rewritten
  mermaid_blocks,    \* extract_mermaid_code's result
  tables,            \* extract_tables' result
  i,                 \* 1-based index of the running loop
  image_map,         \* mermaid_to_img_map, an insertion-ordered dict:
                     \*   sequence of [block, img_path]
  images,            \* image_paths (mermaid) / images (table)
  img_to_url_map,    \* upload_results: function img_path -> url
  str_hash,          \* hash() of the sources hashed so far
  render_log,        \* sources handed to the renderer, in call order
  upload_log,        \* paths handed to the uploader, in call order
  render_failed,     \* indices of the blocks whose render raised
  upload_failed,     \* indices in images of the uploads that raised
  run,               \* number of the run of the workflow, from 1
  previous,          \* the earlier runs: sequence of [input, output, clean]
  tokens,            \* extract_raw_tables: the parser's token list
  current_table_start, \* extract_raw_tables: line number, -1 for None
  raw_tables,        \* extract_raw_tables: the strings found so far
  lines,             \* mdforzhihu.main: f.readlines()
  new_lines,         \* mdforzhihu.main: the lines kept so far
  img_tag_count,     \* mdforzhihu.main
  removed_empty_count \* mdforzhihu.main

vars ==
  << workflow, input_file, output_file, reads, writes, pc, content,
     updated_content, mermaid_blocks, tables, i, image_map, images,
     img_to_url_map, str_hash, render_log, upload_log, render_failed,
     upload_failed, run, previous, tokens, current_table_start, raw_tables,
     lines, new_lines, img_tag_count, removed_empty_count >>

\* The variables of the rerun, of extract_raw_tables and of mdforzhihu.
rerunVars ==
  << run, previous >>

rawVars ==
  << tokens, current_table_start, raw_tables >>

zhihuVars ==
  << lines, new_lines, img_tag_count, removed_empty_count >>

\* The state before any entry point has run on the text doc.
Fresh(doc) ==
  /\ input_file = doc
  /\ output_file = <<>>
  /\ reads = 0
  /\ writes = 0
  /\ pc = "start"
  /\ content = <<>>
  /\ updated_content = <<>>
  /\ mermaid_blocks = <<>>
  /\ tables = <<>>
  /\ i = 1
  /\ image_map = <<>>
  /\ images = <<>>
  /\ img_to_url_map = <<>>
  /\ str_hash = <<>>
  /\ render_log = <<>>
  /\ upload_log = <<>>
  /\ render_failed = {}
  /\ upload_failed = {}
  /\ run = 1
  /\ previous = <<>>
  /\ tokens = <<>>
  /\ current_table_start = -1
  /\ raw_tables = <<>>
  /\ lines = <<>>
  /\ new_lines = <<>>
  /\ img_tag_count = 0
  /\ removed_empty_count = 0

Init ==
  /\ workflow \in {"mermaid", "table"}
  /\ \E doc \in (IF workflow = "mermaid" THEN Docs(MermaidChunks)
                                          ELSE Docs(TableChunks)) :
       Fresh(doc)

\* dict[key] = value on an insertion-ordered dict kept as a sequence
DictSet(d, key, value) ==
  IF \E k \in 1..Len(d) : d[k].block = key
  THEN [ k \in 1..Len(d) |->
           IF d[k].block = key THEN [block |-> key, img_path |-> value]
           ELSE d[k] ]
  ELSE Append(d, [block |-> key, img_path |-> value])

\* f[key] = value on a dict kept as a function
MapSet(f, key, value) ==
  [ k \in DOMAIN f \cup {key} |-> IF k = key THEN value ELSE f[k] ]

\* ------------------------------------- process_mermaid_markdown_3steps
\* Read the file and extract the blocks (convert_mermaid_in_markdown, head).
MermaidRead ==
  /\ workflow = "mermaid" /\ pc = "start"
  /\ content' = input_file
  /\ reads' = reads + 1
  /\ mermaid_blocks' = extract_mermaid_code(input_file)
  /\ i' = 1
  /\ pc' = "convert"
  /\ UNCHANGED << workflow, input_file, output_file, writes, updated_content,
                  tables, image_map, images, img_to_url_map, str_hash,
                  render_log, upload_log, render_failed, upload_failed >>
  /\ UNCHANGED << rerunVars, rawVars, zhihuVars >>

\* One iteration of the convert loop in which mermaid_to_image returns.
MermaidConvertOk ==
  /\ pc = "convert" /\ i <= Len(mermaid_blocks)
  /\ LET code == mermaid_blocks[i].mermaid_code IN
     \E h \in (IF code \in DOMAIN str_hash THEN {str_hash[code]}
                                           ELSE StrHashValues) :
       /\ str_hash' = MapSet(str_hash, code, h)
       /\ render_log' = Append(render_log, code)
       /\ image_map' = DictSet(image_map, mermaid_blocks[i].original_block,
                               MermaidImgPath(h))
  /\ i' = i + 1
  /\ UNCHANGED << workflow, input_file, output_file, reads, writes, pc,
                  content, updated_content, mermaid_blocks, tables, images,
                  img_to_url_map, upload_log, render_failed, upload_failed >>
  /\ UNCHANGED << rerunVars, rawVars, zhihuVars >>

\* One iteration of the convert loop in which render_mermaid_cli raises.
MermaidConvertFail ==
  /\ pc = "convert" /\ i <= Len(mermaid_blocks)
  /\ render_log' = Append(render_log, mermaid_blocks[i].mermaid_code)
  /\ render_failed' = render_failed \cup {i}
  /\ i' = i + 1
  /\ UNCHANGED << workflow, input_file, output_file, reads, writes, pc,
                  content, updated_content, mermaid_blocks, tables, image_map,
                  images, img_to_url_map, str_hash, upload_log,
                  upload_failed >>
  /\ UNCHANGED << rerunVars, rawVars, zhihuVars >>

\* Variant of MermaidWriteUnchanged that returns without writing the file.
MermaidReturnUnwritten ==
  /\ pc = "convert" /\ i > Len(mermaid_blocks)
  /\ image_map = <<>>
  /\ pc' = "done"
  /\ UNCHANGED << workflow, input_file, output_file, reads, writes, content,
                  updated_content, mermaid_blocks, tables, i, image_map,
                  images, img_to_url_map, str_hash, render_log, upload_log,
                  render_failed, upload_failed >>
  /\ UNCHANGED << rerunVars, rawVars, zhihuVars >>

\* End of step 1 with an empty map: the unchanged content is written.
MermaidWriteUnchanged ==
  /\ pc = "convert" /\ i > Len(mermaid_blocks)
  /\ image_map = <<>>
  /\ output_file' = content
  /\ writes' = writes + 1
  /\ pc' = "done"
  /\ UNCHANGED << workflow, input_file, reads, content, updated_content,
                  mermaid_blocks, tables, i, image_map, images,
                  img_to_url_map, str_hash, render_log, upload_log,
                  render_failed, upload_failed >>
  /\ UNCHANGED << rerunVars, rawVars, zhihuVars >>

\* End of step 1 with images: step 2 starts on list(map.values()).
MermaidStartUpload ==
  /\ pc = "convert" /\ i > Len(mermaid_blocks)
  /\ image_map # <<>>
  /\ images' = [ k \in 1..Len(image_map) |-> image_map[k].img_path ]
  /\ i' = 1
  /\ pc' = "upload"
  /\ UNCHANGED << workflow, input_file, output_file, reads, writes, content,
                  updated_content, mermaid_blocks, tables, image_map,
                  img_to_url_map, str_hash, render_log, upload_log,
                  render_failed, upload_failed >>
  /\ UNCHANGED << rerunVars, rawVars, zhihuVars >>

\* One iteration of upload_mermaid_images_to_cos in which upload returns.
MermaidUploadOk ==
  /\ pc = "upload" /\ i <= Len(images)
  /\ upload_log' = Append(upload_log, images[i])
  /\ img_to_url_map' = MapSet(img_to_url_map, images[i], upload(images[i]))
  /\ i' = i + 1
  /\ UNCHANGED << workflow, input_file, output_file, reads, writes, pc,
                  content, updated_content, mermaid_blocks, tables, image_map,
                  images, str_hash, render_log, render_failed, upload_failed >>
  /\ UNCHANGED << rerunVars, rawVars, zhihuVars >>

\* One iteration of upload_mermaid_images_to_cos in which upload raises.
MermaidUploadFail ==
  /\ pc = "upload" /\ i <= Len(images)
  /\ upload_log' = Append(upload_log, images[i])
  /\ upload_failed' = upload_failed \cup {i}
  /\ i' = i + 1
  /\ UNCHANGED << workflow, input_file, output_file, reads, writes, pc,
                  content, updated_content, mermaid_blocks, tables, image_map,
                  images, img_to_url_map, str_hash, render_log,
                  render_failed >>
  /\ UNCHANGED << rerunVars, rawVars, zhihuVars >>

\* Step 3 starts: updated_content = markdown_content.
MermaidStartReplace ==
  /\ pc = "upload" /\ i > Len(images)
  /\ updated_content' = content
  /\ i' = 1
  /\ pc' = "replace"
  /\ UNCHANGED << workflow, input_file, output_file, reads, writes, content,
                  mermaid_blocks, tables, image_map, images, img_to_url_map,
                  str_hash, render_log, upload_log, render_failed,
                  upload_failed >>
  /\ UNCHANGED << rerunVars, rawVars, zhihuVars >>

\* One iteration of replace_mermaid_with_images with a URL for the image.
MermaidReplaceStep ==
  /\ pc = "replace" /\ i <= Len(image_map)
  /\ image_map[i].img_path \in DOMAIN img_to_url_map
  /\ updated_content' =
       Replace(updated_content, image_map[i].block,
               MermaidLink(i, img_to_url_map[image_map[i].img_path]), -1)
  /\ i' = i + 1
  /\ UNCHANGED << workflow, input_file, output_file, reads, writes, pc,
                  content, mermaid_blocks, tables, image_map, images,
                  img_to_url_map, str_hash, render_log, upload_log,
                  render_failed, upload_failed >>
  /\ UNCHANGED << rerunVars, rawVars, zhihuVars >>

\* One iteration of replace_mermaid_with_images without a URL: ValueError,
\* which nothing catches.
MermaidReplaceRaise ==
  /\ pc = "replace" /\ i <= Len(image_map)
  /\ image_map[i].img_path \notin DOMAIN img_to_url_map
  /\ pc' = "aborted"
  /\ UNCHANGED << workflow, input_file, output_file, reads, writes, content,
                  updated_content, mermaid_blocks, tables, i, image_map,
                  images, img_to_url_map, str_hash, render_log, upload_log,
                  render_failed, upload_failed >>
  /\ UNCHANGED << rerunVars, rawVars, zhihuVars >>

\* The single write of final_content.
MermaidWrite ==
  /\ pc = "replace" /\ i > Len(image_map)
  /\ output_file' = updated_content
  /\ writes' = writes + 1
  /\ pc' = "done"
  /\ UNCHANGED << workflow, input_file, reads, content, updated_content,
                  mermaid_blocks, tables, i, image_map, images,
                  img_to_url_map, str_hash, render_log, upload_log,
                  render_failed, upload_failed >>
  /\ UNCHANGED << rerunVars, rawVars, zhihuVars >>

\* ------------------------------------------------------- mdtable2img.main
\* Read the file and extract the tables.
TableRead ==
  /\ workflow = "table" /\ pc = "start"
  /\ content' = input_file
  /\ reads' = reads + 1
  /\ tables' = extract_tables(input_file)
  /\ i' = 1
  /\ pc' = "t_convert"
  /\ UNCHANGED << workflow, input_file, output_file, writes, updated_content,
                  mermaid_blocks, image_map, images, img_to_url_map, str_hash,
                  render_log, upload_log, render_failed, upload_failed >>
  /\ UNCHANGED << rerunVars, rawVars, zhihuVars >>

\* One iteration of the convert loop in which table_to_image returns.
TableConvertOk ==
  /\ pc = "t_convert" /\ i <= Len(tables)
  /\ render_log' = Append(render_log, tables[i])
  /\ images' = Append(images, TableImgPath(i))
  /\ i' = i + 1
  /\ UNCHANGED << workflow, input_file, output_file, reads, writes, pc,
                  content, updated_content, mermaid_blocks, tables, image_map,
                  img_to_url_map, str_hash, upload_log, render_failed,
                  upload_failed >>
  /\ UNCHANGED << rerunVars, rawVars, zhihuVars >>

\* table_to_image raises: nothing catches it, the run ends.
TableConvertRaise ==
  /\ pc = "t_convert" /\ i <= Len(tables)
  /\ render_log' = Append(render_log, tables[i])
  /\ render_failed' = render_failed \cup {i}
  /\ pc' = "aborted"
  /\ UNCHANGED << workflow, input_file, output_file, reads, writes, content,
                  updated_content, mermaid_blocks, tables, i, image_map,
                  images, img_to_url_map, str_hash, upload_log,
                  upload_failed >>
  /\ UNCHANGED << rerunVars, rawVars, zhihuVars >>

\* The convert loop is over, the upload-and-replace loop starts.
TableStartUpload ==
  /\ pc = "t_convert" /\ i > Len(tables)
  /\ i' = 1
  /\ pc' = "t_upload"
  /\ UNCHANGED << workflow, input_file, output_file, reads, writes, content,
                  updated_content, mermaid_blocks, tables, image_map, images,
                  img_to_url_map, str_hash, render_log, upload_log,
                  render_failed, upload_failed >>
  /\ UNCHANGED << rerunVars, rawVars, zhihuVars >>

\* One iteration of the upload loop: upload, then replace the first
\* occurrence of the table text in content.
TableUploadOk ==
  /\ pc = "t_upload" /\ i <= Len(images)
  /\ upload_log' = Append(upload_log, images[i])
  /\ img_to_url_map' = MapSet(img_to_url_map, images[i], upload(images[i]))
  /\ content' = Replace(content, tables[i], TableLink(i, upload(images[i])), 1)
  /\ i' = i + 1
  /\ UNCHANGED << workflow, input_file, output_file, reads, writes, pc,
                  updated_content, mermaid_blocks, tables, image_map, images,
                  str_hash, render_log, render_failed, upload_failed >>
  /\ UNCHANGED << rerunVars, rawVars, zhihuVars >>

\* upload raises: nothing catches it, the run ends.
TableUploadRaise ==
  /\ pc = "t_upload" /\ i <= Len(images)
  /\ upload_log' = Append(upload_log, images[i])
  /\ upload_failed' = upload_failed \cup {i}
  /\ pc' = "aborted"
  /\ UNCHANGED << workflow, input_file, output_file, reads, writes, content,
                  updated_content, mermaid_blocks, tables, i, image_map,
                  images, img_to_url_map, str_hash, render_log,
                  render_failed >>
  /\ UNCHANGED << rerunVars, rawVars, zhihuVars >>

\* The write of content.
TableWrite ==
  /\ pc = "t_upload" /\ i > Len(images)
  /\ output_file' = content
  /\ writes' = writes + 1
  /\ pc' = "done"
  /\ UNCHANGED << workflow, input_file, reads, content, updated_content,
                  mermaid_blocks, tables, i, image_map, images,
                  img_to_url_map, str_hash, render_log, upload_log,
                  render_failed, upload_failed >>
  /\ UNCHANGED << rerunVars, rawVars, zhihuVars >>

Next ==
  \/ MermaidRead
  \/ MermaidConvertOk
  \/ MermaidConvertFail
  \/ MermaidWriteUnchanged
  \/ MermaidStartUpload
  \/ MermaidUploadOk
  \/ MermaidUploadFail
  \/ MermaidStartReplace
  \/ MermaidReplaceStep
  \/ MermaidReplaceRaise
  \/ MermaidWrite
  \/ TableRead
  \/ TableConvertOk
  \/ TableConvertRaise
  \/ TableStartUpload
  \/ TableUploadOk
  \/ TableUploadRaise
  \/ TableWrite

Spec ==
  Init /\ [][Next]_vars

\* The entry point is started again, on the file the completed run wrote
\* (a new process: nothing but the file is carried over).
Rerun ==
  /\ workflow \in {"mermaid", "table"}
  /\ pc = "done" /\ run < MaxRuns
  /\ input_file' = output_file
  /\ output_file' = <<>>
  /\ reads' = 0
  /\ writes' = 0
  /\ pc' = "start"
  /\ content' = <<>>
  /\ updated_content' = <<>>
  /\ mermaid_blocks' = <<>>
  /\ tables' = <<>>
  /\ i' = 1
  /\ image_map' = <<>>
  /\ images' = <<>>
  /\ img_to_url_map' = <<>>
  /\ str_hash' = <<>>
  /\ render_log' = <<>>
  /\ upload_log' = <<>>
  /\ render_failed' = {}
  /\ upload_failed' = {}
  /\ run' = run + 1
  /\ previous' = Append(previous,
                        [ input  |-> input_file,
                          output |-> output_file,
                          clean  |-> render_failed = {} /\ upload_failed = {} ])
  /\ UNCHANGED << workflow, rawVars, zhihuVars >>

NextRerun ==
  \/ Next
  \/ Rerun

SpecRerun ==
  Init /\ [][NextRerun]_vars

\* ------------------------------------- extract_tables.extract_raw_tables
\* str.splitlines(): the lines of s without their line ends.
RECURSIVE SplitLines(_)
SplitLines(s) ==
  IF s = <<>> THEN <<>>
  ELSE LET newlines == { k \in 1..Len(s) : s[k] = NL } IN
       IF newlines = {} THEN <<s>>
       ELSE LET e == CHOOSE k \in newlines : \A m \in newlines : k <= m
            IN  <<SubSeq(s, 1, e - 1)>> \o SplitLines(SubSeq(s, e + 1, Len(s)))

\* seq[a:b] for 0 <= a, 0 <= b
Slice(seq, a, b) ==
  SubSeq(seq, a + 1, IF b < Len(seq) THEN b ELSE Len(seq))

\* "\n".join(seq)
RECURSIVE JoinLines(_)
JoinLines(seq) ==
  IF seq = <<>> THEN <<>>
  ELSE IF Len(seq) = 1 THEN seq[1]
  ELSE seq[1] \o <<NL>> \o JoinLines(Tail(seq))

\* A document with n tables: two rows, then a line of text, n times.
RawTablesDoc(n) ==
  Flatten(<< <<PIPE, "a", PIPE, NL, PIPE, "b", PIPE, NL, "a", NL>> >>,
          [ k \in 1..n |-> 1 ])

\* The line range [first, end) of the t-th table of RawTablesDoc.
TableRange(t) ==
  << 3 * (t - 1), 3 * (t - 1) + 2 >>

\* What the parser may return for a document with n tables: per table a
\* table_open, a row token, a table_close and the paragraph after it; the
\* map of table_open and of table_close is the table's range or missing
\* (<<>> for None).
ParserTokens(n) ==
  { [ k \in 1..(4 * n) |->
        LET t == (k + 3) \div 4
            pos == k - 4 * (t - 1)
        IN  IF pos = 1
            THEN [type |-> "table_open",
                  map |-> IF has[t][1] THEN TableRange(t) ELSE <<>>]
            ELSE IF pos = 2
            THEN [type |-> "tr_open", map |-> TableRange(t)]
            ELSE IF pos = 3
            THEN [type |-> "table_close",
                  map |-> IF has[t][2] THEN TableRange(t) ELSE <<>>]
            ELSE [type |-> "paragraph_open",
                  map |-> << 3 * (t - 1) + 2, 3 * t >>] ] :
      has \in [ 1..n -> [ 1..2 -> BOOLEAN ] ] }

InitRawTables ==
  /\ workflow = "raw_tables"
  /\ \E n \in 0..MaxTables : Fresh(RawTablesDoc(n))

mainVars ==
  << input_file, output_file, reads, writes, content, updated_content,
     mermaid_blocks, tables, image_map, images, img_to_url_map, str_hash,
     render_log, upload_log, render_failed, upload_failed >>

\* md.parse(md_text, {})
RawParse ==
  /\ workflow = "raw_tables" /\ pc = "start"
  /\ tokens' \in ParserTokens(Len(SplitLines(input_file)) \div 3)
  /\ raw_tables' = <<>>
  /\ current_table_start' = -1
  /\ i' = 1
  /\ pc' = "loop"
  /\ UNCHANGED << workflow, mainVars, rerunVars, zhihuVars >>

\* One iteration of the loop on a table_open token.
RawTableOpen ==
  /\ workflow = "raw_tables" /\ pc = "loop" /\ i <= Len(tokens)
  /\ tokens[i].type = "table_open"
  /\ current_table_start' = IF tokens[i].map # <<>> THEN tokens[i].map[1]
                            ELSE current_table_start
  /\ i' = i + 1
  /\ UNCHANGED << workflow, pc, tokens, raw_tables, mainVars, rerunVars,
                  zhihuVars >>

\* One iteration of the loop on a table_close token.
RawTableClose ==
  /\ workflow = "raw_tables" /\ pc = "loop" /\ i <= Len(tokens)
  /\ tokens[i].type = "table_close"
  /\ IF current_table_start # -1 /\ tokens[i].map # <<>>
     THEN /\ raw_tables' =
               Append(raw_tables,
                      JoinLines(Slice(SplitLines(input_file),
                                      current_table_start, tokens[i].map[2])))
          /\ current_table_start' = -1
     ELSE UNCHANGED << raw_tables, current_table_start >>
  /\ i' = i + 1
  /\ UNCHANGED << workflow, pc, tokens, mainVars, rerunVars, zhihuVars >>

\* One iteration of the loop on any other token.
RawOtherToken ==
  /\ workflow = "raw_tables" /\ pc = "loop" /\ i <= Len(tokens)
  /\ tokens[i].type \notin {"table_open", "table_close"}
  /\ i' = i + 1
  /\ UNCHANGED << workflow, pc, tokens, raw_tables, current_table_start,
                  mainVars, rerunVars, zhihuVars >>

\* return raw_tables
RawReturn ==
  /\ workflow = "raw_tables" /\ pc = "loop" /\ i > Len(tokens)
  /\ pc' = "done"
  /\ UNCHANGED << workflow, i, mainVars, rerunVars, rawVars, zhihuVars >>

NextRawTables ==
  \/ RawParse
  \/ RawTableOpen
  \/ RawTableClose
  \/ RawOtherToken
  \/ RawReturn

SpecRawTables ==
  InitRawTables /\ [][NextRawTables]_vars

\* ------------------------------------------------------- mdforzhihu.main
\* The pieces the mdforzhihu documents are assembled from: six lines, and a
\* piece that runs into the piece after it or ends the file without a line end.
ZhihuChunks ==
  << <<"!", "[", "a", "]", "(", "a", ")", NL>>,     \* an image tag
     <<SP, "!", "[", "]", "(", ")", "a", NL>>,      \* indented, text after it
     <<NL>>,                                        \* an empty line
     <<SP, NL>>,                                    \* a line of spaces
     <<"a", NL>>,                                   \* text
     <<"!", "[", "a", "]", NL>>,                    \* no target: not a tag
     <<"a", "!", "[", "]", "(", ")">> >>            \* text and a tag, no line end

ZhihuDocs ==
  { Flatten(ZhihuChunks, ids) :
      ids \in UNION { [1..k -> 1..Len(ZhihuChunks)] : k \in 0..MaxLines } }

\* f.readlines(): the lines of s, each with its line end; the text after
\* the last line end, if any, is a line too.
ReadLines(s) ==
  LET ends == { k \in 1..Len(s) : s[k] = NL \/ k = Len(s) }
      end(m) == CHOOSE k \in ends : Cardinality({ x \in ends : x <= k }) = m
  IN  [ m \in 1..Cardinality(ends) |->
          SubSeq(s, IF m = 1 THEN 1 ELSE end(m - 1) + 1, end(m)) ]

\* re.match(r"!\[.*?\]\(.*?\)", stripped)
ImgTagMatch(stripped) ==
  /\ Len(stripped) >= 2 /\ stripped[1] = "!" /\ stripped[2] = "["
  /\ \E j \in 3..(Len(stripped) - 1) :
       /\ stripped[j] = "]" /\ stripped[j + 1] = "("
       /\ \A m \in 3..(j - 1) : stripped[m] # NL
       /\ \E k \in (j + 2)..Len(stripped) :
            /\ stripped[k] = ")"
            /\ \A m \in (j + 2)..(k - 1) : stripped[m] # NL

\* while new_lines and new_lines[-1].strip() == "": new_lines.pop()
\* What the loop leaves: ls up to its last line that is not empty.
PopEmpty(ls) ==
  LET full == { k \in 1..Len(ls) : Strip(ls[k]) # <<>> } IN
  IF full = {} THEN <<>>
  ELSE SubSeq(ls, 1, CHOOSE k \in full : \A m \in full : m <= k)

\* while j < n and lines[j].strip() == "": j += 1   (j 1-based here)
RECURSIVE SkipEmpty(_, _)
SkipEmpty(ls, j) ==
  IF j <= Len(ls) /\ Strip(ls[j]) = <<>> THEN SkipEmpty(ls, j + 1) ELSE j

\* f.writelines(new_lines)
RECURSIVE WriteLines(_)
WriteLines(ls) ==
  IF ls = <<>> THEN <<>> ELSE Head(ls) \o WriteLines(Tail(ls))

\* The program is started; the file it is given is not yet known.
InitForZhihu ==
  /\ workflow = "forzhihu"
  /\ Fresh(<<>>)

\* args = parser.parse_args(): the file the run works on, and its text.
ZhihuArgs ==
  /\ workflow = "forzhihu" /\ pc = "start"
  /\ input_file' \in ZhihuDocs
  /\ pc' = "opened"
  /\ UNCHANGED << workflow, output_file, reads, writes, content,
                  updated_content, mermaid_blocks, tables, i, image_map,
                  images, img_to_url_map, str_hash, render_log, upload_log,
                  render_failed, upload_failed, rerunVars, rawVars,
                  zhihuVars >>

\* lines = f.readlines() and the initialisation of the loop.
ZhihuRead ==
  /\ workflow = "forzhihu" /\ pc = "opened"
  /\ lines' = ReadLines(input_file)
  /\ reads' = reads + 1
  /\ new_lines' = <<>>
  /\ i' = 1
  /\ img_tag_count' = 0
  /\ removed_empty_count' = 0
  /\ pc' = "loop"
  /\ UNCHANGED << workflow, input_file, output_file, writes, content,
                  updated_content, mermaid_blocks, tables, image_map, images,
                  img_to_url_map, str_hash, render_log, upload_log,
                  render_failed, upload_failed, rerunVars, rawVars >>

\* Variant of ZhihuImgLine that leaves the empty lines before the tag.
ZhihuImgLineKeepsBefore ==
  /\ workflow = "forzhihu" /\ pc = "loop" /\ i <= Len(lines)
  /\ ImgTagMatch(Strip(lines[i]))
  /\ LET j == SkipEmpty(lines, i + 1)
     IN  /\ img_tag_count' = img_tag_count + 1
         /\ new_lines' = Append(new_lines, lines[i])
         /\ removed_empty_count' = removed_empty_count + (j - (i + 1))
         /\ i' = j
  /\ UNCHANGED << workflow, pc, lines, mainVars, rerunVars, rawVars >>

\* One iteration of the loop on an image-tag line.
ZhihuImgLine ==
  /\ workflow = "forzhihu" /\ pc = "loop" /\ i <= Len(lines)
  /\ ImgTagMatch(Strip(lines[i]))
  /\ LET kept == PopEmpty(new_lines)
         j == SkipEmpty(lines, i + 1)
     IN  /\ img_tag_count' = img_tag_count + 1
         /\ new_lines' = Append(kept, lines[i])
         /\ removed_empty_count' =
              removed_empty_count + (Len(new_lines) - Len(kept)) + (j - (i + 1))
         /\ i' = j
  /\ UNCHANGED << workflow, pc, lines, mainVars, rerunVars, rawVars >>

\* One iteration of the loop on any other line.
ZhihuOtherLine ==
  /\ workflow = "forzhihu" /\ pc = "loop" /\ i <= Len(lines)
  /\ ~ImgTagMatch(Strip(lines[i]))
  /\ new_lines' = Append(new_lines, lines[i])
  /\ i' = i + 1
  /\ UNCHANGED << workflow, pc, lines, img_tag_count, removed_empty_count,
                  mainVars, rerunVars, rawVars >>

\* The loop is over: the kept lines are written.
ZhihuWrite ==
  /\ workflow = "forzhihu" /\ pc = "loop" /\ i > Len(lines)
  /\ output_file' = WriteLines(new_lines)
  /\ writes' = writes + 1
  /\ pc' = "done"
  /\ UNCHANGED << workflow, input_file, reads, content, updated_content,
                  mermaid_blocks, tables, i, image_map, images,
                  img_to_url_map, str_hash, render_log, upload_log,
                  render_failed, upload_failed, rerunVars, rawVars,
                  zhihuVars >>

NextForZhihu ==
  \/ ZhihuArgs
  \/ ZhihuRead
  \/ ZhihuImgLine
  \/ ZhihuOtherLine
  \/ ZhihuWrite

\* The program is sequential and keeps running until it returns.
SpecForZhihu ==
  InitForZhihu /\ [][NextForZhihu]_vars /\ WF_vars(NextForZhihu)

TypeOK ==
  /\ pc \in {"start", "convert", "upload", "replace", "t_convert",
             "t_upload", "done", "aborted", "loop", "opened"}
  /\ writes \in 0..1

\* ================================================================== claims
\* Helpers used to state the claims (not part of the program).

\* The spans of the blocks of the input, as [first, last] token indices.
Matches ==
  IF workflow = "mermaid" THEN MermaidFinditer(input_file, 1)
  ELSE TableFinditer(input_file, 1)

\* The content handed to the renderer for the k-th block of the input.
BlockContent(k) ==
  IF workflow = "mermaid" THEN extract_mermaid_code(input_file)[k].mermaid_code
  ELSE extract_tables(input_file)[k]

BlockSpan(k) ==
  SubSeq(input_file, Matches[k].first, Matches[k].last)

\* s from index p on, with the k-th and later spans of m replaced by repl[k].
RECURSIVE SpliceFrom(_, _, _, _, _)
SpliceFrom(s, m, repl, k, p) ==
  IF k > Len(m) THEN SubSeq(s, p, Len(s))
  ELSE SubSeq(s, p, m[k].first - 1) \o repl[k]
       \o SpliceFrom(s, m, repl, k + 1, m[k].last + 1)

Range(f) ==
  { f[x] : x \in DOMAIN f }

NoFailure ==
  render_failed = {} /\ upload_failed = {}

\* C1: in a completed run of either workflow the renderer was called once
\* per distinct block content: the number of render calls equals the number
\* of distinct contents among the blocks of the document.
C1_RenderOncePerContent ==
  pc = "done" =>
    Len(render_log) = Cardinality({ BlockContent(k) : k \in 1..Len(Matches) })

\* C2: in a completed run of the mermaid workflow the uploader was called
\* once per distinct diagram content that rendered successfully, also when
\* two blocks with the same content differ in their span text.
C2_UploadOncePerContent ==
  (workflow = "mermaid" /\ pc = "done") =>
    Len(upload_log) =
      Cardinality({ BlockContent(k) : k \in (1..Len(Matches)) \ render_failed })

\* C3: when the document's diagram blocks are N >= 2 verbatim copies of one
\* fenced block and every render and upload succeeds, the output is the
\* input with the k-th copy replaced by the link captioned mermaid k, all
\* links with the same URL.
C3_DuplicatesNumbered ==
  ( /\ workflow = "mermaid" /\ pc = "done" /\ NoFailure
    /\ Len(Matches) >= 2
    /\ \A k \in 1..Len(Matches) : BlockSpan(k) = BlockSpan(1) )
  => \E url \in Range(img_to_url_map) :
       output_file =
         SpliceFrom(input_file, Matches,
                    [ k \in 1..Len(Matches) |-> MermaidLink(k, url) ], 1, 1)

\* Every image link the mermaid workflow could write for the URL url.
MermaidLinks(url) ==
  { MermaidLink(n, url) : n \in 1..Len(Matches) }

\* The URL of the image rendered from the content of the k-th block.
OwnUrl(k) ==
  upload(MermaidImgPath(str_hash[BlockContent(k)]))

\* The k-th block of the mermaid document has an uploaded image.
HasUrl(k) ==
  \E e \in 1..Len(image_map) :
    /\ image_map[e].block = BlockSpan(k)
    /\ image_map[e].img_path \in DOMAIN img_to_url_map

\* C4: in the mermaid workflow, when the uploader failed for one image and
\* succeeded for another, the run is not aborted, and the output it writes
\* keeps the spans of the diagrams without URL as original markup and has an
\* image link with the diagram's own URL in place of every other span.
C4_UploadFailureIsolated ==
  ( /\ workflow = "mermaid" /\ render_failed = {}
    /\ upload_failed # {} /\ DOMAIN img_to_url_map # {} )
  => /\ pc # "aborted"
     /\ pc = "done" =>
          \E repl \in [ 1..Len(Matches) ->
                          UNION { MermaidLinks(u) : u \in Range(img_to_url_map) }
                          \cup { BlockSpan(k) : k \in 1..Len(Matches) } ] :
            /\ \A k \in 1..Len(Matches) :
                 IF HasUrl(k) THEN repl[k] \in MermaidLinks(OwnUrl(k))
                 ELSE repl[k] = BlockSpan(k)
            /\ output_file = SpliceFrom(input_file, Matches, repl, 1, 1)

\* No render of the content of the k-th block succeeded.
ContentFailed(k) ==
  \A j \in 1..Len(Matches) :
    BlockContent(j) = BlockContent(k) => j \in render_failed

\* C5: in the mermaid workflow with no upload failure, a render failure does
\* not abort the run, and the output it writes keeps every span of a block
\* whose content failed to render as original markup and has an image link
\* with the block's own URL in place of every block that rendered.
C5_RenderFailureIsolated ==
  (workflow = "mermaid" /\ render_failed # {} /\ upload_failed = {})
  => /\ pc # "aborted"
     /\ pc = "done" =>
          \E repl \in [ 1..Len(Matches) ->
                          UNION { MermaidLinks(u) : u \in Range(img_to_url_map) }
                          \cup { BlockSpan(k) : k \in 1..Len(Matches) } ] :
            /\ \A k \in 1..Len(Matches) :
                 /\ ContentFailed(k) => repl[k] = BlockSpan(k)
                 /\ k \notin render_failed => repl[k] \in MermaidLinks(OwnUrl(k))
            /\ output_file = SpliceFrom(input_file, Matches, repl, 1, 1)

\* C6: in the table workflow a render or upload failure does not abort the
\* run: the run is never aborted, and a completed run wrote the output once.
C6_TableFailureIsolated ==
  workflow = "table" =>
    /\ pc # "aborted"
    /\ pc = "done" => writes = 1

\* The text between the spans: Gaps[1] before the first span, Gaps[k + 1]
\* after the k-th.
Gaps ==
  [ g \in 1..(Len(Matches) + 1) |->
      SubSeq(input_file,
             IF g = 1 THEN 1 ELSE Matches[g - 1].last + 1,
             IF g = Len(Matches) + 1 THEN Len(input_file)
             ELSE Matches[g].first - 1) ]

\* out from index p on is gaps[g], anything, gaps[g + 1], ..., anything,
\* the last gap.
RECURSIVE GapsInOrder(_, _, _, _)
GapsInOrder(out, gaps, g, p) ==
  IF g = Len(gaps)
  THEN /\ p <= Len(out) - Len(gaps[g]) + 1
       /\ SubSeq(out, Len(out) - Len(gaps[g]) + 1, Len(out)) = gaps[g]
  ELSE \E q \in p..(Len(out) + 1) :
         /\ (g = 1 => q = 1)
         /\ q + Len(gaps[g]) - 1 <= Len(out)
         /\ SubSeq(out, q, q + Len(gaps[g]) - 1) = gaps[g]
         /\ GapsInOrder(out, gaps, g + 1, q + Len(gaps[g]))

\* C7: in a completed run of either workflow the text outside the extracted
\* spans is in the output unchanged and in order: the output is the first
\* gap, a replacement or span, the second gap, and so on to the last gap.
C7_TextOutsideSpansKept ==
  pc = "done" => GapsInOrder(output_file, Gaps, 1, 1)

TwoRowTableA ==
  TableChunks[3]

TwoRowTableB ==
  TableChunks[4]

\* Text that may lie between two tables: blank lines, a line of text.
TableSeparators ==
  { <<NL>>, <<"a", NL>> }

\* C8: for a document made of two distinct tables with a separator between
\* them, a completed and failure-free run of the table workflow extracted
\* two blocks, called renderer and uploader twice each, and wrote the links
\* Table 1 and Table 2, with distinct URLs, around the unchanged separator.
C8_TwoTablesTwoLinks ==
  \A sep \in TableSeparators :
    ( /\ workflow = "table" /\ pc = "done"
      /\ input_file = TwoRowTableA \o sep \o TwoRowTableB )
    => /\ tables = <<TwoRowTableA, TwoRowTableB>>
       /\ Len(render_log) = 2
       /\ Len(upload_log) = 2
       /\ upload(TableImgPath(1)) # upload(TableImgPath(2))
       /\ output_file = TableLink(1, upload(TableImgPath(1))) \o sep
                        \o TableLink(2, upload(TableImgPath(2)))

\* The number of blocks the workflow's extractor finds in the input.
BlockCount ==
  IF workflow = "mermaid" THEN Len(extract_mermaid_code(input_file))
  ELSE Len(extract_tables(input_file))

\* C9: for a document with zero matching blocks neither the renderer nor the
\* uploader is ever invoked, the run is not aborted, and the completed run
\* has written, once, a text equal to the input.
C9_NoBlocksNoChange ==
  BlockCount = 0 =>
    /\ render_log = <<>>
    /\ upload_log = <<>>
    /\ pc # "aborted"
    /\ pc = "done" => (writes = 1 /\ output_file = input_file)

\* A completed mermaid run on a text with an unclosed fence and no block.
C9_Witness ==
  /\ workflow = "mermaid" /\ pc = "done"
  /\ BlockCount = 0
  /\ \E k \in 1..Len(input_file) : input_file[k] = FENCE

\* The spans occur in s from index p on, one after the other, the k-th and
\* later ones, without overlap.
RECURSIVE SpansInOrder(_, _, _, _)
SpansInOrder(s, spans, k, p) ==
  IF k > Len(spans) THEN TRUE
  ELSE \E q \in p..Len(s) :
         /\ q + Len(spans[k]) - 1 <= Len(s)
         /\ SubSeq(s, q, q + Len(spans[k]) - 1) = spans[k]
         /\ SpansInOrder(s, spans, k + 1, q + Len(spans[k]))

\* The original spans the extractor of the workflow returned.
ExtractedSpans ==
  IF workflow = "mermaid"
  THEN [ k \in 1..Len(mermaid_blocks) |-> mermaid_blocks[k].original_block ]
  ELSE tables

\* C10: the spans returned by extract_mermaid_code and by extract_tables are
\* contiguous pieces of the input text, in document order, not overlapping.
C10_SpansVerbatimInOrder ==
  pc # "start" => SpansInOrder(input_file, ExtractedSpans, 1, 1)

\* Extraction returned two blocks, one of them with padded content.
C10_Witness ==
  /\ workflow = "mermaid" /\ pc = "convert"
  /\ Len(mermaid_blocks) >= 2
  /\ \E k \in 1..Len(mermaid_blocks) :
       mermaid_blocks[k].original_block = MermaidChunks[2]

\* The number of blocks the workflow's extractor finds in the text s.
BlocksIn(s) ==
  IF workflow = "mermaid" THEN Len(extract_mermaid_code(s))
  ELSE Len(extract_tables(s))

\* C11: a completed run in which every render and upload succeeded wrote a
\* document without a matching block, and the next run on that document
\* calls neither renderer nor uploader, is not aborted and writes a document
\* equal to its input.
C11_SecondRunNoOp ==
  /\ (pc = "done" /\ NoFailure) => BlocksIn(output_file) = 0
  /\ (run > 1 /\ previous[run - 1].clean) =>
       /\ render_log = <<>>
       /\ upload_log = <<>>
       /\ pc # "aborted"
       /\ pc = "done" => output_file = input_file

\* C12: a run reads the input once and writes the output once: never more
\* than one read or write, exactly one of each in a run that has ended, and
\* the write only when every render and upload attempt has resolved.
C12_ReadOnceWriteOnce ==
  /\ reads <= 1 /\ writes <= 1
  /\ pc \in {"done", "aborted"} => (reads = 1 /\ writes = 1)
  /\ writes = 1 =>
       /\ Len(render_log) = BlockCount
       /\ Len(upload_log) = Len(images)

\* A replacement has been applied to the document text held in memory.
Rewritten ==
  \/ workflow = "table" /\ pc # "start" /\ content # input_file
  \/ /\ workflow = "mermaid" /\ pc \in {"replace", "done", "aborted"}
     /\ updated_content # content

\* C13: in both workflows no replacement is applied to the text in memory
\* before every render and every upload attempt of the run has resolved.
C13_RewriteAfterUploads ==
  Rewritten =>
    /\ Len(render_log) = BlockCount
    /\ Len(upload_log) = Len(images)

\* The output is the input with every block either left as it is or
\* replaced in place by an image link whose caption number is in caps(k).
ReplacedInPlace(caps(_)) ==
  \E repl \in [ 1..Len(Matches) ->
                  UNION { MermaidLinks(u) : u \in Range(img_to_url_map) }
                  \cup { BlockSpan(k) : k \in 1..Len(Matches) } ] :
    /\ \A k \in 1..Len(Matches) :
         \/ repl[k] = BlockSpan(k)
         \/ \E n \in caps(k), u \in Range(img_to_url_map) :
              repl[k] = MermaidLink(n, u)
    /\ output_file = SpliceFrom(input_file, Matches, repl, 1, 1)

AnyCaption(k) ==
  1..Len(Matches)

OwnPosition(k) ==
  {k}

\* C14: in a completed run of the mermaid workflow whose output has every
\* block either unchanged or replaced in place by an image link, the link
\* that replaces the k-th block of the document is captioned mermaid k.
C14_CaptionIsPosition ==
  (workflow = "mermaid" /\ pc = "done" /\ ReplacedInPlace(AnyCaption))
  => ReplacedInPlace(OwnPosition)

\* The image file written for the j-th render call of the mermaid workflow.
RenderedPath(j) ==
  MermaidImgPath(str_hash[render_log[j]])

\* The content the image file at path was last rendered from.
ImageSource(path) ==
  LET writers == { j \in (1..Len(render_log)) \ render_failed :
                     RenderedPath(j) = path }
  IN  render_log[CHOOSE j \in writers : \A m \in writers : m <= j]

\* C15: in the mermaid workflow two distinct diagram contents never get the
\* same image file name, and in a completed run the image of every entry of
\* the block-to-image map was rendered from the content of that block.
C15_DistinctContentsDistinctImages ==
  workflow = "mermaid" =>
    /\ \A c1, c2 \in DOMAIN str_hash :
         c1 # c2 => MermaidImgPath(str_hash[c1]) # MermaidImgPath(str_hash[c2])
    /\ pc = "done" =>
         \A e \in 1..Len(image_map), k \in 1..Len(mermaid_blocks) :
           mermaid_blocks[k].original_block = image_map[e].block
             => ImageSource(image_map[e].img_path)
                  = mermaid_blocks[k].mermaid_code

\* The tables of the parsed document whose two tokens both carry a map.
MappedTables ==
  LET n == Len(tokens) \div 4 IN
  { t \in 1..n : tokens[4 * t - 3].map # <<>> /\ tokens[4 * t - 1].map # <<>> }

\* The lines of the t-th table, from its opening to its closing line.
OwnLines(t) ==
  JoinLines(Slice(SplitLines(input_file), TableRange(t)[1], TableRange(t)[2]))

RECURSIVE OwnLinesOf(_, _)
OwnLinesOf(ts, t) ==
  IF t > Len(tokens) \div 4 THEN <<>>
  ELSE (IF t \in ts THEN <<OwnLines(t)>> ELSE <<>>) \o OwnLinesOf(ts, t + 1)

\* C16: extract_raw_tables returns, in order, the own lines of exactly the
\* tables whose table_open and table_close both carry a map: a table without
\* a map is skipped and no returned string starts at an earlier table.
C16_UnmappedTableSkipped ==
  (workflow = "raw_tables" /\ pc = "done")
  => raw_tables = OwnLinesOf(MappedTables, 1)

IsEmptyLine(l) ==
  Strip(l) = <<>>

IsImgLine(l) ==
  ImgTagMatch(Strip(l))

\* The k-th line of ls is an empty line in a run of empty lines directly
\* before or directly after an image-tag line.
NextToImg(ls, k) ==
  /\ IsEmptyLine(ls[k])
  /\ \E m \in 1..Len(ls) :
       /\ IsImgLine(ls[m])
       /\ \A x \in 1..Len(ls) :
            ((k < x /\ x < m) \/ (m < x /\ x < k)) => IsEmptyLine(ls[x])

\* ls from its k-th line on, without the lines next to an image tag.
RECURSIVE WithoutNextToImg(_, _)
WithoutNextToImg(ls, k) ==
  IF k > Len(ls) THEN <<>>
  ELSE (IF NextToImg(ls, k) THEN <<>> ELSE <<ls[k]>>)
       \o WithoutNextToImg(ls, k + 1)

ZhihuResult ==
  LET in  == ReadLines(input_file)
      out == WithoutNextToImg(in, 1)
  IN  /\ new_lines = out
      /\ output_file = WriteLines(out)
      /\ ReadLines(output_file) = out
      /\ \A k \in 1..(Len(new_lines) - 1) :
           /\ ~(IsImgLine(new_lines[k]) /\ IsEmptyLine(new_lines[k + 1]))
           /\ ~(IsEmptyLine(new_lines[k]) /\ IsImgLine(new_lines[k + 1]))
      /\ removed_empty_count = Len(in) - Len(new_lines)

\* C17: mdforzhihu.main terminates, and what it has written is the input
\* without exactly the empty lines of the runs directly before or after an
\* image-tag line; no image-tag line of the output is next to an empty line
\* and removed_empty_count is the number of lines removed.
C17_ZhihuTerminatesAndStrips ==
  /\ <>(pc = "done")
  /\ [](pc = "done" => ZhihuResult)

\* A completed run that removed an empty line and kept another one.
C17_Witness ==
  /\ workflow = "forzhihu" /\ pc = "done"
  /\ removed_empty_count >= 1
  /\ \E k \in 1..Len(new_lines) : IsEmptyLine(new_lines[k])

====
